---- MODULE Spec2Model ----
(***************************************************************************)
(* Model of src/main.rs of pico_wii-ext_demo: the control loop of `main`   *)
(* (delay, controller read, get_report + write_report or controller.init,  *)
(* usb_dev.poll) and the pure mapper `get_report`.                         *)
(*                                                                         *)
(* The controller (wii_ext::classic::Classic), the HID interface and the   *)
(* USB device are external crates: their outcomes (read Ok/Err, init       *)
(* Ok/Err, write_report Ok/WouldBlock/other error) are inputs chosen by    *)
(* the environment.  Integer overflow in Rust is build dependent: with     *)
(* overflow checks the operation panics, without them it wraps.  The build *)
(* is not fixed by the source, so it is a choice made in Init.             *)
(***************************************************************************)
EXTENDS Integers, Sequences, FiniteSets, TLC

VARIABLES
    overflow_checks,  \* the build: TRUE = overflow panics, FALSE = wraps
    pc,               \* position of main's loop
    iter,             \* number of loop iterations started
    input,            \* result of controller.read_blocking of this iteration
    report,           \* value of get_report(&input) of this iteration
    round,            \* number of get_report evaluations on the current pipeline
    y0,               \* left-stick Y of the first sample read (round-trip origin)
    calls,            \* trace of the calls main made: [op, it, res]
    okSamples,        \* [it, sample] of the successful reads, in order
    sunk              \* [it, report] of the write_report calls, in order

vars == <<overflow_checks, pc, iter, input, report, round, y0, calls, okSamples, sunk>>

----------------------------------------------------------------------------
(* Bounds of the model *)

\* number of loop iterations the history variables follow
MaxIter == 3

----------------------------------------------------------------------------
(* Types of the external crates as main.rs uses them *)

\* i8: joystick_left_x / joystick_left_y and JoystickReport.x / .y
I8 == -128..127

\* u8: JoystickReport.buttons
U8 == 0..255

\* two's-complement wrap of an integer into i8
WrapI8(n) == ((n + 128) % 256) - 128

\* `b as u8` for a bool
AsU8(b) == IF b THEN 1 ELSE 0

\* `v << k` on u8, 0 <= k < 8: bits shifted beyond bit 7 are dropped
Shl(v, k) == (v * (2 ^ k)) % 256

\* the fields of ClassicReadingCalibrated that get_report reads
Flags == [button_b: BOOLEAN, button_a: BOOLEAN, button_y: BOOLEAN,
          button_x: BOOLEAN, button_trigger_l: BOOLEAN,
          button_trigger_r: BOOLEAN, button_minus: BOOLEAN,
          button_plus: BOOLEAN]

Sample(f, x, y) ==
    [button_b |-> f.button_b, button_a |-> f.button_a,
     button_y |-> f.button_y, button_x |-> f.button_x,
     button_trigger_l |-> f.button_trigger_l,
     button_trigger_r |-> f.button_trigger_r,
     button_minus |-> f.button_minus, button_plus |-> f.button_plus,
     joystick_left_x |-> x, joystick_left_y |-> y]

NoFlags == [button_b |-> FALSE, button_a |-> FALSE, button_y |-> FALSE,
            button_x |-> FALSE, button_trigger_l |-> FALSE,
            button_trigger_r |-> FALSE, button_minus |-> FALSE,
            button_plus |-> FALSE]

ZeroSample == Sample(NoFlags, 0, 0)

NoReport == [buttons |-> 0, x |-> 0, y |-> 0]

----------------------------------------------------------------------------
(* get_report, main.rs:133-151 *)

\* mutant: button_b and button_a take each other's bit
ButtonTermsSwapped(in) ==
    << Shl(AsU8(in.button_a), 0),
       Shl(AsU8(in.button_b), 1),
       Shl(AsU8(in.button_y), 2),
       Shl(AsU8(in.button_x), 3),
       Shl(AsU8(in.button_trigger_l), 4),
       Shl(AsU8(in.button_trigger_r), 5),
       Shl(AsU8(in.button_minus), 6),
       Shl(AsU8(in.button_plus), 7) >>

\* mutant: button_a is shifted by 0 like button_b (two addends on bit 0)
ButtonTermsDupShift(in) ==
    << Shl(AsU8(in.button_b), 0),
       Shl(AsU8(in.button_a), 0),
       Shl(AsU8(in.button_y), 2),
       Shl(AsU8(in.button_x), 3),
       Shl(AsU8(in.button_trigger_l), 4),
       Shl(AsU8(in.button_trigger_r), 5),
       Shl(AsU8(in.button_minus), 6),
       Shl(AsU8(in.button_plus), 7) >>

\* the eight addends of lines 137-144, in source order
ButtonTerms(in) ==
    << Shl(AsU8(in.button_b), 0),
       Shl(AsU8(in.button_a), 1),
       Shl(AsU8(in.button_y), 2),
       Shl(AsU8(in.button_x), 3),
       Shl(AsU8(in.button_trigger_l), 4),
       Shl(AsU8(in.button_trigger_r), 5),
       Shl(AsU8(in.button_minus), 6),
       Shl(AsU8(in.button_plus), 7) >>

\* `buttons` after the first k additions (u8, wrapped as the unchecked build does)
RECURSIVE ButtonsAfter(_, _)
ButtonsAfter(in, k) ==
    IF k = 0 THEN 0
    ELSE (ButtonsAfter(in, k - 1) + ButtonTerms(in)[k]) % 256

\* whether one of the eight `+=` leaves the range of u8
AddOverflows(in) ==
    \E k \in 1..8 : ButtonsAfter(in, k - 1) + ButtonTerms(in)[k] > 255

\* whether `-input.joystick_left_y` leaves the range of i8
NegOverflows(in) == (0 - in.joystick_left_y) \notin I8

\* mutant: the report's x is taken from the Y axis
ReportOfXFromY(in) ==
    [buttons |-> ButtonsAfter(in, 8),
     x       |-> in.joystick_left_y,
     y       |-> WrapI8(0 - in.joystick_left_y)]

\* the JoystickReport literal of lines 146-150
ReportOf(in) ==
    [buttons |-> ButtonsAfter(in, 8),
     x       |-> in.joystick_left_x,
     y       |-> WrapI8(0 - in.joystick_left_y)]

\* get_report under a given build: it panics on an overflow when the build
\* checks overflow, and returns the wrapped value otherwise
get_report(in, checks) ==
    IF checks /\ (AddOverflows(in) \/ NegOverflows(in))
    THEN [panicked |-> TRUE, value |-> NoReport]
    ELSE [panicked |-> FALSE, value |-> ReportOf(in)]

----------------------------------------------------------------------------
(* Inputs *)

\* axis values tried in combination with every flag combination
AxisCases == {-128, -127, -1, 0, 1, 127}

\* flag combinations tried in combination with every axis value
FlagCases == {f \in Flags :
                 /\ f.button_y = f.button_a
                 /\ f.button_x = FALSE
                 /\ f.button_trigger_l = FALSE
                 /\ f.button_trigger_r = f.button_plus
                 /\ f.button_minus = FALSE}

\* samples handed to get_report alone: all 256 flag combinations, every X
\* and every Y of i8
MapSamples ==
    {Sample(f, x, y) : f \in Flags, x \in AxisCases, y \in AxisCases}
    \cup {Sample(f, x, y) : f \in FlagCases, x \in I8, y \in AxisCases}
    \cup {Sample(f, x, y) : f \in FlagCases, x \in AxisCases, y \in I8}

\* samples the controller returns in the loop model
SampleB == Sample([NoFlags EXCEPT !.button_b = TRUE], 0, 0)
SampleMix == Sample([NoFlags EXCEPT !.button_a = TRUE, !.button_plus = TRUE], 5, -7)
SampleYMin == Sample([NoFlags EXCEPT !.button_x = TRUE], -3, -128)
LoopSamples == {SampleB, SampleMix, SampleYMin}

----------------------------------------------------------------------------
(* main, lines 105-130 *)

Call(op, res) == [op |-> op, it |-> iter, res |-> res]

\* state after line 97-104: controller created, loop not yet entered
Init ==
    /\ overflow_checks \in BOOLEAN
    /\ pc = "delay"
    /\ iter = 0
    /\ input = [ok |-> FALSE, sample |-> ZeroSample]
    /\ report = NoReport
    /\ round = 0
    /\ y0 = 0
    /\ calls = << >>
    /\ okSamples = << >>
    /\ sunk = << >>

\* line 108: delay.delay_ms(1)
Delay ==
    /\ pc = "delay"
    /\ iter < MaxIter
    /\ iter' = iter + 1
    /\ calls' = Append(calls, [op |-> "delay", it |-> iter + 1, res |-> "ok"])
    /\ pc' = "read"
    /\ UNCHANGED <<overflow_checks, input, report, round, y0, okSamples, sunk>>

\* line 110: controller.read_blocking(&mut delay) returns Ok(sample)
ReadOk ==
    /\ pc = "read"
    /\ \E s \in LoopSamples :
          /\ input' = [ok |-> TRUE, sample |-> s]
          /\ okSamples' = Append(okSamples, [it |-> iter, sample |-> s])
    /\ calls' = Append(calls, Call("read", "Ok"))
    /\ pc' = "get_report"
    /\ UNCHANGED <<overflow_checks, iter, report, round, y0, sunk>>

\* line 110: controller.read_blocking(&mut delay) returns Err
ReadErr ==
    /\ pc = "read"
    /\ input' = [ok |-> FALSE, sample |-> ZeroSample]
    /\ calls' = Append(calls, Call("read", "Err"))
    /\ pc' = "init"
    /\ UNCHANGED <<overflow_checks, iter, report, round, y0, okSamples, sunk>>

\* mutant: `buttons` outlives the call and keeps accumulating across reports
GetReportSticky ==
    /\ pc = "get_report"
    /\ input.ok
    /\ LET r == get_report(input.sample, overflow_checks) IN
          \/ /\ r.panicked
             /\ calls' = Append(calls, Call("get_report", "panic"))
             /\ pc' = "panicked"
             /\ UNCHANGED report
          \/ /\ ~r.panicked
             /\ calls' = Append(calls, Call("get_report", "ok"))
             /\ report' = [r.value EXCEPT
                              !.buttons = (report.buttons + r.value.buttons) % 256]
             /\ pc' = "write_report"
    /\ round' = round + 1
    /\ UNCHANGED <<overflow_checks, iter, input, y0, okSamples, sunk>>

\* line 114, argument: get_report(&input)
GetReport ==
    /\ pc = "get_report"
    /\ input.ok
    /\ LET r == get_report(input.sample, overflow_checks) IN
          \/ /\ r.panicked
             /\ calls' = Append(calls, Call("get_report", "panic"))
             /\ pc' = "panicked"
             /\ UNCHANGED report
          \/ /\ ~r.panicked
             /\ calls' = Append(calls, Call("get_report", "ok"))
             /\ report' = r.value
             /\ pc' = "write_report"
    /\ round' = round + 1
    /\ UNCHANGED <<overflow_checks, iter, input, y0, okSamples, sunk>>

\* mutant: a WouldBlock report is submitted again instead of being dropped
WriteReportRetry ==
    /\ pc = "write_report"
    /\ sunk' = Append(sunk, [it |-> iter, report |-> report])
    /\ \E res \in {"Ok", "WouldBlock", "Err"} :
          /\ calls' = Append(calls, Call("write_report", res))
          /\ pc' = CASE res = "Err" -> "panicked"
                    [] res = "WouldBlock" /\ Len(sunk) < MaxIter + 1 -> "write_report"
                    [] OTHER -> "poll"
    /\ UNCHANGED <<overflow_checks, iter, input, report, round, y0, okSamples>>

\* mutant: every write error is ignored like WouldBlock
WriteReportIgnoreErr ==
    /\ pc = "write_report"
    /\ sunk' = Append(sunk, [it |-> iter, report |-> report])
    /\ \E res \in {"Ok", "WouldBlock", "Err"} :
          /\ calls' = Append(calls, Call("write_report", res))
          /\ pc' = "poll"
    /\ UNCHANGED <<overflow_checks, iter, input, report, round, y0, okSamples>>

\* lines 114-120: write_report and the match on its result
WriteReport ==
    /\ pc = "write_report"
    /\ sunk' = Append(sunk, [it |-> iter, report |-> report])
    /\ \E res \in {"Ok", "WouldBlock", "Err"} :
          /\ calls' = Append(calls, Call("write_report", res))
          /\ pc' = IF res = "Err" THEN "panicked" ELSE "poll"
    /\ UNCHANGED <<overflow_checks, iter, input, report, round, y0, okSamples>>

\* mutant: usb_dev.poll sits in the Ok branch, the recovery branch skips it
ControllerInitSkipPoll ==
    /\ pc = "init"
    /\ \E res \in {"Ok", "Err"} :
          calls' = Append(calls, Call("init", res))
    /\ pc' = "delay"
    /\ UNCHANGED <<overflow_checks, iter, input, report, round, y0, okSamples, sunk>>

\* mutant: the result of controller.init is unwrapped, a failure panics
ControllerInitUnwrap ==
    /\ pc = "init"
    /\ \E res \in {"Ok", "Err"} :
          /\ calls' = Append(calls, Call("init", res))
          /\ pc' = IF res = "Err" THEN "panicked" ELSE "poll"
    /\ UNCHANGED <<overflow_checks, iter, input, report, round, y0, okSamples, sunk>>

\* line 125: let _ = controller.init(&mut delay)
ControllerInit ==
    /\ pc = "init"
    /\ \E res \in {"Ok", "Err"} :
          calls' = Append(calls, Call("init", res))
    /\ pc' = "poll"
    /\ UNCHANGED <<overflow_checks, iter, input, report, round, y0, okSamples, sunk>>

\* mutant: the delay is outside the loop, the loop head is the read
PollThenRead ==
    /\ pc = "poll"
    /\ iter < MaxIter
    /\ \E res \in {"true", "false"} :
          calls' = Append(calls, Call("poll", res))
    /\ iter' = iter + 1
    /\ pc' = "read"
    /\ UNCHANGED <<overflow_checks, input, report, round, y0, okSamples, sunk>>

\* line 129: if usb_dev.poll(&mut [&mut joy]) {}
Poll ==
    /\ pc = "poll"
    /\ \E res \in {"true", "false"} :
          calls' = Append(calls, Call("poll", res))
    /\ pc' = "delay"
    /\ UNCHANGED <<overflow_checks, iter, input, report, round, y0, okSamples, sunk>>

Next ==
    \/ Delay
    \/ ReadOk
    \/ ReadErr
    \/ GetReport
    \/ WriteReport
    \/ ControllerInit
    \/ Poll

Spec == Init /\ [][Next]_vars

----------------------------------------------------------------------------
(* get_report alone, on every sample of MapSamples *)

InitMap ==
    /\ overflow_checks \in BOOLEAN
    /\ pc = "get_report"
    /\ iter = 1
    /\ \E s \in MapSamples :
          /\ input = [ok |-> TRUE, sample |-> s]
          /\ y0 = s.joystick_left_y
    /\ report = NoReport
    /\ round = 0
    /\ calls = << >>
    /\ okSamples = << >>
    /\ sunk = << >>

NextMap == GetReport

SpecMap == InitMap /\ [][NextMap]_vars

----------------------------------------------------------------------------
(* get_report applied twice, Y negated outside between the two calls *)

\* the harness step of the round trip: the report's y, negated outside the
\* mapper, is the Y of the next sample (it has to be a value of i8)
Feedback ==
    /\ pc = "write_report"
    /\ round = 1
    /\ (0 - report.y) \in I8
    /\ input' = [input EXCEPT !.sample.joystick_left_y = 0 - report.y]
    /\ pc' = "get_report"
    /\ UNCHANGED <<overflow_checks, iter, report, round, y0, calls, okSamples, sunk>>

InitRoundTrip ==
    /\ overflow_checks \in BOOLEAN
    /\ pc = "get_report"
    /\ iter = 1
    /\ \E f \in FlagCases, x \in AxisCases, y \in I8 :
          /\ input = [ok |-> TRUE, sample |-> Sample(f, x, y)]
          /\ y0 = y
    /\ report = NoReport
    /\ round = 0
    /\ calls = << >>
    /\ okSamples = << >>
    /\ sunk = << >>

NextRoundTrip ==
    \/ GetReport
    \/ Feedback

SpecRoundTrip == InitRoundTrip /\ [][NextRoundTrip]_vars

----------------------------------------------------------------------------
(* the accumulation of `buttons` in get_report, one `+=` per step *)

\* one of the additions of lines 137-144: `round` additions are done,
\* report.buttons holds the local `buttons`
AddButton ==
    /\ pc = "accumulate"
    /\ round < 8
    /\ LET sum == report.buttons + ButtonTerms(input.sample)[round + 1] IN
          IF sum > 255 /\ overflow_checks
          THEN pc' = "panicked" /\ UNCHANGED report
          ELSE /\ report' = [report EXCEPT !.buttons = sum % 256]
               /\ pc' = pc
    /\ round' = round + 1
    /\ UNCHANGED <<overflow_checks, iter, input, y0, calls, okSamples, sunk>>

\* line 135: let mut buttons = 0, for every flag combination
InitAccum ==
    /\ overflow_checks \in BOOLEAN
    /\ pc = "accumulate"
    /\ iter = 1
    /\ \E f \in Flags : input = [ok |-> TRUE, sample |-> Sample(f, 0, 0)]
    /\ report = NoReport
    /\ round = 0
    /\ y0 = 0
    /\ calls = << >>
    /\ okSamples = << >>
    /\ sunk = << >>

NextAccum == AddButton

SpecAccum == InitAccum /\ [][NextAccum]_vars

----------------------------------------------------------------------------
(* main's loop running without end: the same steps, with `calls` holding   *)
(* the calls of the current iteration only and the other history variables *)
(* left alone, so that the loop is not cut off after MaxIter iterations    *)

\* line 108
LiveDelay ==
    /\ pc = "delay"
    /\ calls' = << Call("delay", "ok") >>
    /\ pc' = "read"
    /\ UNCHANGED <<overflow_checks, iter, input, report, round, y0, okSamples, sunk>>

\* line 110, Ok(sample)
LiveReadOk ==
    /\ pc = "read"
    /\ \E s \in LoopSamples : input' = [ok |-> TRUE, sample |-> s]
    /\ calls' = Append(calls, Call("read", "Ok"))
    /\ pc' = "get_report"
    /\ UNCHANGED <<overflow_checks, iter, report, round, y0, okSamples, sunk>>

\* line 110, Err
LiveReadErr ==
    /\ pc = "read"
    /\ input' = [ok |-> FALSE, sample |-> ZeroSample]
    /\ calls' = Append(calls, Call("read", "Err"))
    /\ pc' = "init"
    /\ UNCHANGED <<overflow_checks, iter, report, round, y0, okSamples, sunk>>

\* line 114, argument
LiveGetReport ==
    /\ pc = "get_report"
    /\ input.ok
    /\ LET r == get_report(input.sample, overflow_checks) IN
          IF r.panicked
          THEN /\ calls' = Append(calls, Call("get_report", "panic"))
               /\ pc' = "panicked"
               /\ UNCHANGED report
          ELSE /\ calls' = Append(calls, Call("get_report", "ok"))
               /\ report' = r.value
               /\ pc' = "write_report"
    /\ UNCHANGED <<overflow_checks, iter, input, round, y0, okSamples, sunk>>

\* lines 114-120
LiveWriteReport ==
    /\ pc = "write_report"
    /\ \E res \in {"Ok", "WouldBlock", "Err"} :
          /\ calls' = Append(calls, Call("write_report", res))
          /\ pc' = IF res = "Err" THEN "panicked" ELSE "poll"
    /\ UNCHANGED <<overflow_checks, iter, input, report, round, y0, okSamples, sunk>>

\* line 125
LiveControllerInit ==
    /\ pc = "init"
    /\ \E res \in {"Ok", "Err"} :
          calls' = Append(calls, Call("init", res))
    /\ pc' = "poll"
    /\ UNCHANGED <<overflow_checks, iter, input, report, round, y0, okSamples, sunk>>

\* line 129
LivePoll ==
    /\ pc = "poll"
    /\ \E res \in {"true", "false"} :
          calls' = Append(calls, Call("poll", res))
    /\ pc' = "delay"
    /\ UNCHANGED <<overflow_checks, iter, input, report, round, y0, okSamples, sunk>>

NextLive ==
    \/ LiveDelay
    \/ LiveReadOk
    \/ LiveReadErr
    \/ LiveGetReport
    \/ LiveWriteReport
    \/ LiveControllerInit
    \/ LivePoll

\* the processor keeps executing the loop (weak fairness of every step);
\* the controller read eventually succeeds (strong fairness of the Ok read)
FairLive ==
    /\ WF_vars(LiveDelay)
    /\ WF_vars(LiveReadOk \/ LiveReadErr)
    /\ WF_vars(LiveGetReport)
    /\ WF_vars(LiveWriteReport)
    /\ WF_vars(LiveControllerInit)
    /\ WF_vars(LivePoll)
    /\ SF_vars(LiveReadOk)

SpecLive == Init /\ [][NextLive]_vars /\ FairLive

----------------------------------------------------------------------------
(* Claims about get_report *)

\* bit k of a byte
Bit(n, k) == ((n \div (2 ^ k)) % 2) = 1

\* the button the contract assigns to bit k
FlagOfBit(s, k) ==
    CASE k = 0 -> s.button_b
      [] k = 1 -> s.button_a
      [] k = 2 -> s.button_y
      [] k = 3 -> s.button_x
      [] k = 4 -> s.button_trigger_l
      [] k = 5 -> s.button_trigger_r
      [] k = 6 -> s.button_minus
      [] k = 7 -> s.button_plus

\* get_report has returned a report for `input`
Mapped == pc = "write_report" /\ round = 1

\* C1: in every report get_report returns, bit k of buttons is set iff the
\* k-th tracked button flag of the sample is true (bit0=B, bit1=A, bit2=Y,
\* bit3=X, bit4=L, bit5=R, bit6=minus, bit7=plus), for all 256 flag
\* combinations and whatever the axes are; B alone with axes 0 gives
\* buttons=1, x=0, y=0.
C1_ButtonBits ==
    Mapped =>
        /\ report.buttons \in U8
        /\ \A k \in 0..7 : Bit(report.buttons, k) <=> FlagOfBit(input.sample, k)
        /\ (input.sample = SampleB => report = [buttons |-> 1, x |-> 0, y |-> 0])

C1_Witness ==
    /\ Mapped
    /\ input.sample.button_b /\ ~input.sample.button_a
    /\ input.sample.button_plus /\ input.sample.button_trigger_r
    /\ input.sample.joystick_left_x = 127
    /\ report.buttons = 161

\* C3 (as claimed): for every Y of -128..127 get_report returns, without
\* abort, a report whose y is the arithmetic negation of Y.
C3_NegatesEveryY ==
    /\ pc # "panicked"
    /\ (Mapped => report.y = 0 - input.sample.joystick_left_y)

\* C9: the x of every report get_report returns is the sample's left-stick
\* X, whatever the flags and Y are.
C9_XUnchanged ==
    Mapped => report.x = input.sample.joystick_left_x

C9_Witness ==
    /\ Mapped
    /\ input.sample.joystick_left_x = -128
    /\ input.sample.joystick_left_y = 1
    /\ input.sample.button_plus
    /\ report.x = -128

\* C10 (as claimed): for every Y of the axis type, mapping Y, negating the
\* report's y outside, mapping that value and negating once more gives Y
\* back: neither call aborts, the value negated outside is a Y a sample can
\* carry, and the second result negated equals the original.
C10_SelfInverse ==
    /\ pc # "panicked"
    /\ (pc = "write_report" /\ round = 1 => (0 - report.y) \in I8)
    /\ (pc = "write_report" /\ round = 2 => 0 - report.y = y0)

----------------------------------------------------------------------------
(* Claims about the loop of main *)

IsCall(i, op, res) == calls[i].op = op /\ calls[i].res = res

NumCalls(op) == Cardinality({i \in DOMAIN calls : calls[i].op = op})

NumRes(op, res) == Cardinality({i \in DOMAIN calls : IsCall(i, op, res)})

\* the sink accepted every write so far
AllAccepted ==
    \A i \in DOMAIN calls : calls[i].op = "write_report" => calls[i].res = "Ok"

\* call i is followed by usb_dev.poll of the same iteration (or the loop is
\* about to make that call)
GoesOnToPoll(i) ==
    IF i = Len(calls)
    THEN pc = "poll"
    ELSE calls[i + 1].op = "poll" /\ calls[i + 1].it = calls[i].it

\* C2 (as claimed): with a sink that accepts every write, the loop calls
\* controller.init once per failed read and never otherwise, hands the sink
\* one report per successful read, the reports being get_report of the
\* successful samples in order, and the loop does not stop.
C2_ScriptedRun ==
    AllAccepted =>
        /\ pc # "panicked"
        /\ NumCalls("init") <= NumRes("read", "Err")
        /\ Len(sunk) <= Len(okSamples)
        /\ \A k \in DOMAIN sunk :
              sunk[k].report = get_report(okSamples[k].sample, overflow_checks).value
        /\ (pc = "delay" =>
              /\ NumCalls("init") = NumRes("read", "Err")
              /\ Len(sunk) = Len(okSamples))

\* C4: after write_report returned WouldBlock for a report the loop is not
\* halted and goes on to usb_dev.poll of that iteration; no iteration calls
\* write_report twice, and every report handed to write_report is computed
\* from the sample read in its own iteration, so a later write never
\* re-submits the dropped report.
C4_WouldBlockDropped ==
    /\ \A i \in DOMAIN calls :
          IsCall(i, "write_report", "WouldBlock") =>
              /\ GoesOnToPoll(i)
              /\ \A j \in DOMAIN calls :
                    j > i /\ calls[j].op = "write_report" => calls[j].it > calls[i].it
    /\ \A k \in DOMAIN sunk :
          /\ \E m \in DOMAIN okSamples :
                /\ okSamples[m].it = sunk[k].it
                /\ sunk[k].report = ReportOf(okSamples[m].sample)
          /\ \A l \in DOMAIN sunk : k < l => sunk[k].it < sunk[l].it

C4_Witness ==
    \E i, j \in DOMAIN calls :
        /\ i < j
        /\ IsCall(i, "write_report", "WouldBlock")
        /\ calls[j].op = "write_report"
        /\ sunk[Len(sunk)].report # sunk[1].report

\* C5: a write_report error other than WouldBlock halts the loop in that
\* iteration and for good: it is the last call main ever makes (no read,
\* get_report, write_report, controller.init, usb_dev.poll or delay
\* follows it) and no step is possible from the halted state.
C5_FatalWriteError ==
    /\ \A i \in DOMAIN calls :
          IsCall(i, "write_report", "Err") => i = Len(calls) /\ pc = "panicked"
    /\ (pc = "panicked" => ~ENABLED Next)

C5_Witness ==
    /\ pc = "panicked"
    /\ iter = 2
    /\ IsCall(Len(calls), "write_report", "Err")
    /\ NumRes("write_report", "WouldBlock") = 1

\* C6: every iteration calls usb_dev.poll at most once, every completed
\* iteration exactly once, and each of the outcomes write accepted, write
\* WouldBlock, reinitialize succeeded and reinitialize failed goes on to
\* the poll of its iteration.
C6_PollOncePerIteration ==
    /\ \A k \in 1..iter :
          LET polls == {i \in DOMAIN calls : calls[i].op = "poll" /\ calls[i].it = k} IN
              /\ Cardinality(polls) <= 1
              /\ (k < iter \/ pc = "delay" => Cardinality(polls) = 1)
    /\ \A i \in DOMAIN calls :
          \/ IsCall(i, "write_report", "Ok")
          \/ IsCall(i, "write_report", "WouldBlock")
          \/ calls[i].op = "init"
          => GoesOnToPoll(i)

C6_Witness ==
    /\ pc = "delay"
    /\ iter = 3
    /\ NumRes("write_report", "WouldBlock") = 1
    /\ NumRes("init", "Err") = 1
    /\ NumRes("write_report", "Ok") = 1
    /\ NumCalls("poll") = 3

\* C7: every controller.read_blocking call is immediately preceded by the
\* delay call of the same iteration, so no read follows a read or a
\* reinitialize without a delay in between.
C7_DelayBeforeRead ==
    \A i \in DOMAIN calls :
        calls[i].op = "read" =>
            /\ i > 1
            /\ calls[i - 1].op = "delay"
            /\ calls[i - 1].it = calls[i].it

C7_Witness ==
    \E i, j, k \in DOMAIN calls :
        /\ i < j /\ j < k
        /\ calls[i].op = "init"
        /\ calls[j].op = "read"
        /\ calls[k].op = "read"

\* C8 (as claimed): the loop is halted only if an earlier write_report
\* returned an error other than WouldBlock.
C8_HaltOnlyOnWriteError ==
    pc = "panicked" => \E i \in DOMAIN calls : IsCall(i, "write_report", "Err")

\* number of calls of op made in iteration k
NumIn(op, k) ==
    Cardinality({i \in DOMAIN calls : calls[i].op = op /\ calls[i].it = k})

\* iteration k made the call op with result res
HasIn(op, res, k) ==
    \E i \in DOMAIN calls : IsCall(i, op, res) /\ calls[i].it = k

\* iteration k is past its if/else (lines 113-127): it reached the poll or
\* the loop stopped in it
Branched(k) == k < iter \/ pc \in {"poll", "delay", "panicked"}

\* C11 (as claimed): an iteration whose read fails calls controller.init
\* exactly once and neither get_report nor write_report; an iteration whose
\* read succeeds calls write_report exactly once and not controller.init.
C11_OneBranchPerIteration ==
    \A k \in 1..iter :
        /\ ~(NumIn("init", k) > 0 /\ NumIn("write_report", k) > 0)
        /\ (Branched(k) /\ HasIn("read", "Err", k) =>
              /\ NumIn("init", k) = 1
              /\ NumIn("get_report", k) = 0
              /\ NumIn("write_report", k) = 0)
        /\ (Branched(k) /\ HasIn("read", "Ok", k) =>
              /\ NumIn("write_report", k) = 1
              /\ NumIn("init", k) = 0)

\* C12: after an iteration in which the read and controller.init both
\* failed the loop is not halted and goes on to the poll of that
\* iteration, and when the read of the following iteration fails again,
\* that iteration calls controller.init again.
C12_InitFailureRetried ==
    \A k \in 1..iter :
        HasIn("read", "Err", k) /\ HasIn("init", "Err", k) =>
            /\ \A i \in DOMAIN calls :
                  IsCall(i, "init", "Err") /\ calls[i].it = k => GoesOnToPoll(i)
            /\ (k < iter => NumIn("poll", k) = 1 /\ NumIn("delay", k + 1) = 1)
            /\ (k < iter /\ Branched(k + 1) /\ HasIn("read", "Err", k + 1)
                  => NumIn("init", k + 1) = 1)

C12_Witness ==
    /\ iter = 2
    /\ pc = "delay"
    /\ HasIn("read", "Err", 1) /\ HasIn("init", "Err", 1)
    /\ HasIn("read", "Err", 2) /\ NumIn("init", 2) = 1
    /\ NumCalls("poll") = 2

\* the sample read in iteration k (k an iteration whose read succeeded)
SampleOfIter(k) ==
    okSamples[CHOOSE m \in DOMAIN okSamples : okSamples[m].it = k].sample

\* number of reports handed to write_report in iteration k
SunkIn(k) == Cardinality({i \in DOMAIN sunk : sunk[i].it = k})

\* C14: the report handed to write_report is a function of the sample of
\* its iteration alone: it does not depend on the build, on earlier
\* samples, read failures, reinitialize outcomes or WouldBlock outcomes, so
\* any two iterations that read the same sample hand the same report.
C14_MapperStateless ==
    \A k \in DOMAIN sunk :
        /\ sunk[k].report.buttons = ButtonsAfter(SampleOfIter(sunk[k].it), 8)
        /\ sunk[k].report.x = SampleOfIter(sunk[k].it).joystick_left_x
        /\ sunk[k].report.y = WrapI8(0 - SampleOfIter(sunk[k].it).joystick_left_y)
        /\ \A l \in DOMAIN sunk :
              SampleOfIter(sunk[k].it) = SampleOfIter(sunk[l].it)
                  => sunk[k].report = sunk[l].report

C14_Witness ==
    /\ Len(sunk) = 2
    /\ sunk[1].it = 1 /\ sunk[2].it = 3
    /\ HasIn("write_report", "WouldBlock", 1)
    /\ HasIn("read", "Err", 2) /\ HasIn("init", "Err", 2)
    /\ SampleOfIter(1) = SampleMix /\ SampleOfIter(3) = SampleMix
    /\ sunk[1].report = sunk[2].report

\* C15 (as claimed): every report handed to write_report is get_report of
\* the sample read in the same iteration, and every successful sample is
\* mapped once and offered to the sink exactly once.
C15_EverySampleOfferedOnce ==
    /\ \A k \in DOMAIN sunk :
          /\ HasIn("read", "Ok", sunk[k].it)
          /\ sunk[k].report = ReportOf(SampleOfIter(sunk[k].it))
    /\ \A m \in DOMAIN okSamples :
          Branched(okSamples[m].it) =>
              /\ NumIn("get_report", okSamples[m].it) = 1
              /\ SunkIn(okSamples[m].it) = 1

----------------------------------------------------------------------------
(* Claims about the accumulation of `buttons` *)

\* bitwise OR of two naturals
RECURSIVE BitOr(_, _)
BitOr(a, b) ==
    IF a = 0 THEN b
    ELSE IF b = 0 THEN a
    ELSE (IF a % 2 = 1 \/ b % 2 = 1 THEN 1 ELSE 0) + 2 * BitOr(a \div 2, b \div 2)

\* bitwise OR of the first k addends
RECURSIVE OrOfTerms(_, _)
OrOfTerms(in, k) ==
    IF k = 0 THEN 0 ELSE BitOr(OrOfTerms(in, k - 1), ButtonTerms(in)[k])

AllFlags(s) == \A k \in 0..7 : FlagOfBit(s, k)

\* C16: for every flag combination, no addition of the accumulation
\* overflows u8 (it neither panics nor wraps: the sum about to be formed is
\* at most 255), after each addition `buttons` is within 0..255 and equals
\* the bitwise OR of the addends so far, and with all eight flags true the
\* final value is 255.
C16_AccumulationIsOr ==
    /\ pc # "panicked"
    /\ report.buttons \in U8
    /\ report.buttons = OrOfTerms(input.sample, round)
    /\ (round < 8 => report.buttons + ButtonTerms(input.sample)[round + 1] <= 255)
    /\ (round = 8 => report.buttons = ButtonsAfter(input.sample, 8))
    /\ (round = 8 /\ AllFlags(input.sample) => report.buttons = 255)

C16_Witness ==
    /\ pc = "accumulate"
    /\ round = 8
    /\ AllFlags(input.sample)
    /\ report.buttons = 255

----------------------------------------------------------------------------
(* Claims about the loop running without end *)

\* the last call the loop made
LastIs(op, res) == calls # << >> /\ IsCall(Len(calls), op, res)

\* a report has just been handed to write_report
Handed == calls # << >> /\ calls[Len(calls)].op = "write_report"

\* C13 (as claimed): after a read failure the loop always comes to a
\* further read, and, the read eventually succeeding (fairness of
\* SpecLive) and the sink never returning an error other than WouldBlock,
\* a report is handed to write_report infinitely often.
C13_RetriedForever ==
    /\ (LastIs("read", "Err") ~> pc = "read")
    /\ (<>LastIs("write_report", "Err") \/ []<>Handed)

====
